---- MODULE Spec2Model ----
(***************************************************************************)
(* Model of DifferentialLogging::source                                    *)
(* (src/sources/differential_logging.rs): the construction of the          *)
(* "Differential Logging Demux" operator and the closure the engine runs   *)
(* on every scheduling of that operator.                                   *)
(*                                                                         *)
(* Machine integers are scaled down to WordBits bits; the casts and the    *)
(* additions are computed modulo 2^WordBits as the release build computes  *)
(* them modulo 2^64.  The lengths that the environment of Spec delivers    *)
(* are sizes of in-memory batches, far below the word's range.             *)
(* SpecWide delivers lengths up to the end of the word's range, in a build *)
(* with or without overflow checks; FairSpec adds the fair scheduling of   *)
(* the operator.                                                           *)
(***************************************************************************)
EXTENDS Integers, Sequences, FiniteSets, TLC

VARIABLES
    pc,            \* position: "new", "idle", "active", "batch"; "panicked"
                   \* (in source()), "aborted" (in the closure)
    attributes,    \* self.attributes
    outputs,       \* number of outputs created on the operator builder
    wrappers,      \* HashMap aid -> output (the output's wrapper)
    streams,       \* HashMap aid -> output (the output's stream)
    result,        \* the Vec returned by source()
    input,         \* number of batches available on the operator's input
    demux_buffer,  \* the reused Vec of events
    handles,       \* HashMap aid -> activated output handle
    time,          \* the capability time of the batch being processed
    sessions,      \* HashMap aid -> open session
    channel,       \* per output: the records flushed to it, in order
    consumed,      \* history: the events drained so far, with their batch time
    delivered,     \* history: the events of the batches read so far
    overflow_checks \* build profile: arithmetic overflow panics (debug) or wraps

vars == <<pc, attributes, outputs, wrappers, streams, result, input,
          demux_buffer, handles, time, sessions, channel, consumed,
          delivered, overflow_checks>>

----------------------------------------------------------------------------
(* Bounds *)
MaxAttrs == 2
MaxBatchLen == 2
MaxEvents == 2
WordBits == 5

Modulus == 2 ^ WordBits

size == "differential.event/size"
OtherAid == "differential.event/other"
Aids == {size, OtherAid}

(* The values the delivered events carry: an operator id, the lengths of
   in-memory batches (an empty and a non-empty one, so that a merge can
   shrink, keep or grow the size), and two logical times, so that the time
   of an event can be later than the time of its batch. *)
Operators == {1}
Lengths == {0, 1}
Times == {0, 1}

AttributeLists == UNION {[1 .. n -> Aids] : n \in 0 .. MaxAttrs}

Range(s) == {s[i] : i \in DOMAIN s}

----------------------------------------------------------------------------
(* Values and machine arithmetic *)
Eid(x) == <<"Eid", x>>
Number(x) == <<"Number", x>>

AsU64(x) == x % Modulus
AsI64(x) == LET u == x % Modulus
            IN  IF u >= Modulus \div 2 THEN u - Modulus ELSE u
AddUsize(a, b) == (a + b) % Modulus
SubI64(a, b) == AsI64(a - b)

(* Option<usize> *)
None == <<>>
Some(x) == <<x>>

(* DifferentialEvent with the logical time of its (time, worker, datum) triple *)
BatchEvents ==
    [kind : {"Batch"}, time : Times, operator : Operators, length : Lengths]
MergeEvents ==
    [kind : {"Merge"}, time : Times, operator : Operators,
     length1 : Lengths, length2 : Lengths,
     complete : {None} \cup {Some(c) : c \in Lengths}]
OtherEvents == [kind : {"Other"}, time : Times]
Events == BatchEvents \cup MergeEvents \cup OtherEvents

----------------------------------------------------------------------------
(* HashMap *)
HashInsert(m, k, v) ==
    [x \in (DOMAIN m) \cup {k} |-> IF x = k THEN v ELSE m[x]]
HashRemove(m, k) == [x \in (DOMAIN m) \ {k} |-> m[x]]

----------------------------------------------------------------------------
(* Construction: source(), lines 48-55 and 107-116 *)

(* a plausible slip: the builder hands out the output it created last *)
NewOutputReused(n) == IF n = 0 THEN 1 ELSE n

(* demux.new_output(): the builder appends one output and returns it *)
NewOutput(n) == n + 1

(* for aid in self.attributes.iter() { new_output; insert; insert } *)
RECURSIVE AllocOutputs(_, _, _)
AllocOutputs(attrs, i, st) ==
    IF i > Len(attrs) THEN st
    ELSE LET out == NewOutput(st.outputs)
         IN  AllocOutputs(attrs, i + 1,
                 [outputs  |-> out,
                  wrappers |-> HashInsert(st.wrappers, attrs[i], out),
                  streams  |-> HashInsert(st.streams, attrs[i], out)])

(* self.attributes.iter().map(|aid| (aid, config, streams.remove(aid).unwrap())) *)
RECURSIVE CollectStreams(_, _, _, _)
CollectStreams(attrs, i, strs, acc) ==
    IF i > Len(attrs) THEN [ok |-> TRUE, streams |-> strs, result |-> acc]
    ELSE IF attrs[i] \notin DOMAIN strs
         THEN [ok |-> FALSE, streams |-> strs, result |-> acc]
         ELSE CollectStreams(attrs, i + 1, HashRemove(strs, attrs[i]),
                             Append(acc, <<attrs[i], "real_time(Raw)", strs[attrs[i]]>>))

Source ==
    /\ pc = "new"
    /\ LET st == AllocOutputs(attributes, 1,
                     [outputs |-> 0, wrappers |-> <<>>, streams |-> <<>>])
           c  == CollectStreams(attributes, 1, st.streams, <<>>)
       IN  /\ outputs' = st.outputs
           /\ wrappers' = st.wrappers
           /\ streams' = c.streams
           /\ result' = c.result
           /\ channel' = [o \in 1 .. st.outputs |-> <<>>]
           /\ pc' = IF c.ok THEN "idle" ELSE "panicked"
    /\ UNCHANGED <<attributes, input, demux_buffer, handles, time, sessions,
                   consumed, delivered, overflow_checks>>

----------------------------------------------------------------------------
(* The environment: the replayed stream makes one more batch available on
   the operator's input.  input counts the batches that wait there; the time
   and the events of a batch are the inputs of the for_each closure. *)

(* events logged while the capability of the batch was held: time >= T *)
BatchesOf(Evs, T, n) ==
    {d \in UNION {[1 .. k -> Evs] : k \in 1 .. n} :
        \A i \in DOMAIN d : d[i].time >= T}
BatchesAt(T, n) == BatchesOf(Events, T, n)

(* how many events the next batch may hold: every batch holds at least one *)
Room == MaxEvents - Len(consumed) - (input - 1)

Deliver ==
    /\ pc = "idle"
    /\ Len(consumed) + input < MaxEvents
    /\ input' = input + 1
    /\ UNCHANGED <<pc, attributes, outputs, wrappers, streams, result,
                   demux_buffer, handles, time, sessions, channel, consumed,
                   delivered, overflow_checks>>

----------------------------------------------------------------------------
(* The operator closure, lines 63-104 *)

(* handles.insert(aid.clone(), wrapper.activate()) for every wrapper *)
Schedule ==
    /\ pc = "idle"
    /\ handles' = wrappers
    /\ pc' = "active"
    /\ UNCHANGED <<attributes, outputs, wrappers, streams, result, input,
                   demux_buffer, time, sessions, channel, consumed,
                   delivered, overflow_checks>>

(* a plausible slip: the session keeps the time of the previous batch *)
OpenSessionsStale(h, t) ==
    [a \in DOMAIN h |-> [time |-> time, out |-> h[a], buf |-> <<>>]]

(* a plausible slip: sessions are opened on first use, the size one only *)
OpenSessionsLazy(h, t) ==
    [a \in (DOMAIN h) \cap {size} |-> [time |-> t, out |-> h[a], buf |-> <<>>]]

(* sessions.insert(aid.clone(), handle.session(&time)) for every handle *)
OpenSessions(h, t) ==
    [a \in DOMAIN h |-> [time |-> t, out |-> h[a], buf |-> <<>>]]

(* the history of the events read from the input, with their batch time *)
Logged(data, T) == [i \in 1 .. Len(data) |-> [event |-> data[i], batch |-> T]]

(* input.for_each(|time, data| { data.swap(&mut demux_buffer); sessions ...
   with the events of the batch drawn from Evs *)
ForEachBatchOf(Evs) ==
    /\ pc = "active"
    /\ input > 0
    /\ \E T \in Times :
          \E data \in BatchesOf(Evs, T, IF Room < MaxBatchLen THEN Room
                                                             ELSE MaxBatchLen) :
              /\ demux_buffer' = data
              /\ time' = T
              /\ sessions' = OpenSessions(handles, T)
              /\ delivered' = delivered \o Logged(data, T)
    /\ input' = input - 1
    /\ pc' = "batch"
    /\ UNCHANGED <<attributes, outputs, wrappers, streams, result, handles,
                   channel, consumed, overflow_checks>>

ForEachBatch == ForEachBatchOf(Events)

(* a plausible slip: the tuple is written twice *)
GiveTwice(sess, key, tup, src) ==
    IF key \in DOMAIN sess
    THEN [sess EXCEPT ![key].buf =
              Append(Append(@, [tuple |-> tup, src |-> src]),
                     [tuple |-> tup, src |-> src])]
    ELSE sess

(* a plausible slip: the tuple is put in front of the session's buffer *)
GiveFront(sess, key, tup, src) ==
    IF key \in DOMAIN sess
    THEN [sess EXCEPT ![key].buf = <<[tuple |-> tup, src |-> src]>> \o @]
    ELSE sess

(* a plausible slip: a missing session falls back to every open session *)
GiveFallback(sess, key, tup, src) ==
    IF key \in DOMAIN sess
    THEN [sess EXCEPT ![key].buf = Append(@, [tuple |-> tup, src |-> src])]
    ELSE [a \in DOMAIN sess |->
             [sess[a] EXCEPT !.buf = Append(@, [tuple |-> tup, src |-> src])]]

(* a plausible slip: the tuple is given to every open session *)
GiveAll(sess, key, tup, src) ==
    [a \in DOMAIN sess |->
        [sess[a] EXCEPT !.buf = Append(@, [tuple |-> tup, src |-> src])]]

(* sessions.get_mut(&key).map(|s| s.give(tup)); src is the history index of
   the source event *)
Give(sess, key, tup, src) ==
    IF key \in DOMAIN sess
    THEN [sess EXCEPT ![key].buf = Append(@, [tuple |-> tup, src |-> src])]
    ELSE sess

(* a plausible slip: the operator id is taken for the length *)
BatchTupleOperator(x, t) ==
    <<<<Eid(AsU64(x.operator)), Number(AsI64(x.operator))>>, t, 1>>

(* DifferentialEvent::Batch(x), lines 80-85 *)
BatchTuple(x, t) ==
    LET operator == Eid(AsU64(x.operator))
        length == Number(AsI64(x.length))
    IN  <<<<operator, length>>, t, 1>>

(* a plausible slip: the difference is taken the other way round *)
SizeDiffReversed(x) ==
    SubI64(AsI64(AddUsize(x.length1, x.length2)), AsI64(x.complete[1]))

(* (complete_size as i64) - (x.length1 + x.length2) as i64, lines 92-93 *)
SizeDiff(x) ==
    SubI64(AsI64(x.complete[1]), AsI64(AddUsize(x.length1, x.length2)))

(* DifferentialEvent::Merge(x) with complete = Some(..), lines 91-97 *)
MergeTuple(x, t) ==
    LET operator == Eid(AsU64(x.operator))
        size_diff == SizeDiff(x)
    IN  <<<<operator, Number(size_diff)>>, t, 1>>

(* a plausible slip: an unfinished merge counts as complete with size 0 *)
DemuxUnwrapOrZero(sess, T, e, src) ==
    CASE e.kind = "Batch" -> Give(sess, size, BatchTuple(e, e.time), src)
      [] e.kind = "Merge" ->
            IF e.complete # None
            THEN Give(sess, size, MergeTuple(e, e.time), src)
            ELSE Give(sess, size,
                      MergeTuple([e EXCEPT !.complete = Some(0)], e.time), src)
      [] OTHER -> sess

(* a plausible slip: the loop variable does not shadow the batch's time *)
DemuxBatchTime(sess, T, e, src) ==
    CASE e.kind = "Batch" -> Give(sess, size, BatchTuple(e, T), src)
      [] e.kind = "Merge" ->
            IF e.complete # None
            THEN Give(sess, size, MergeTuple(e, T), src)
            ELSE sess
      [] OTHER -> sess

(* match datum { Batch(x) => .., Merge(x) => .., _ => {} }, lines 78-101;
   T is the time of the batch, shadowed by the time of the event *)
Demux(sess, T, e, src) ==
    CASE e.kind = "Batch" -> Give(sess, size, BatchTuple(e, e.time), src)
      [] e.kind = "Merge" ->
            IF e.complete # None
            THEN Give(sess, size, MergeTuple(e, e.time), src)
            ELSE sess
      [] OTHER -> sess

(* the arithmetic of lines 92-93 that a build with overflow checks aborts *)
AddOverflows(a, b) == a + b >= Modulus
SubOverflows(a, b) == a - b >= Modulus \div 2 \/ a - b < -(Modulus \div 2)
Overflows(e) ==
    /\ e.kind = "Merge"
    /\ e.complete # None
    /\ \/ AddOverflows(e.length1, e.length2)
       \/ SubOverflows(AsI64(e.complete[1]),
                       AsI64(AddUsize(e.length1, e.length2)))

(* a plausible slip: the event is looked at and left in the buffer *)
RestPeek(buf) == buf

(* drain(..) takes the event out of the buffer *)
Rest(buf) == Tail(buf)

(* one iteration of for (time, _worker, datum) in demux_buffer.drain(..) *)
DrainEvent ==
    /\ pc = "batch"
    /\ demux_buffer # <<>>
    /\ ~(overflow_checks /\ Overflows(Head(demux_buffer)))
    /\ LET e == Head(demux_buffer)
       IN  /\ sessions' = Demux(sessions, time, e, Len(consumed) + 1)
           /\ consumed' = Append(consumed, [event |-> e, batch |-> time])
    /\ demux_buffer' = Rest(demux_buffer)
    /\ UNCHANGED <<pc, attributes, outputs, wrappers, streams, result, input,
                   handles, time, channel, delivered, overflow_checks>>

(* the records a closing session hands to its output, stamped with its time *)
Stamped(s) ==
    [i \in 1 .. Len(s.buf) |->
        [stime |-> s.time, tuple |-> s.buf[i].tuple, src |-> s.buf[i].src]]

(* closing a session flushes its buffered tuples to its output *)
Flush(s, ch) == [ch EXCEPT ![s.out] = @ \o Stamped(s)]

(* the orders in which a HashMap with the keys S can be iterated *)
Orders(S) ==
    {f \in [1 .. Cardinality(S) -> S] :
        \A i, j \in DOMAIN f : i # j => f[i] # f[j]}

(* a plausible slip: the k-th session of the iteration goes to output k *)
RECURSIVE FlushAllByPosition(_, _, _)
FlushAllByPosition(sess, ord, ch) ==
    IF ord = <<>> THEN ch
    ELSE FlushAllByPosition(sess, Tail(ord),
             Flush([sess[Head(ord)] EXCEPT
                       !.out = Cardinality(DOMAIN sess) - Len(ord) + 1], ch))

(* the sessions of the HashMap are dropped in its iteration order ord *)
RECURSIVE FlushAll(_, _, _)
FlushAll(sess, ord, ch) ==
    IF ord = <<>> THEN ch
    ELSE FlushAll(sess, Tail(ord), Flush(sess[Head(ord)], ch))

(* a plausible slip: the sessions live outside the closure and stay open *)
DropSessionsKept(sess, ord, ch) == [sessions |-> sess, channel |-> ch]

(* a plausible slip: the sessions are forgotten without being closed *)
DropSessionsForgotten(sess, ord, ch) == [sessions |-> <<>>, channel |-> ch]

(* sessions goes out of scope: every session is closed *)
DropSessions(sess, ord, ch) ==
    [sessions |-> <<>>, channel |-> FlushAll(sess, ord, ch)]

(* end of the for_each closure, line 103 *)
EndBatch ==
    /\ pc = "batch"
    /\ demux_buffer = <<>>
    /\ \E ord \in Orders(DOMAIN sessions) :
          LET d == DropSessions(sessions, ord, channel)
          IN  /\ channel' = d.channel
              /\ sessions' = d.sessions
    /\ pc' = "active"
    /\ UNCHANGED <<attributes, outputs, wrappers, streams, result, input,
                   demux_buffer, handles, time, consumed, delivered,
                   overflow_checks>>

(* an overflow of lines 92-93 in a build with overflow checks: the panic
   unwinds the closure, which drops the drain iterator (the buffer is
   emptied), the sessions and the handles, and the operator is gone *)
Panic ==
    /\ pc = "batch"
    /\ demux_buffer # <<>>
    /\ overflow_checks
    /\ Overflows(Head(demux_buffer))
    /\ consumed' = Append(consumed, [event |-> Head(demux_buffer), batch |-> time])
    /\ demux_buffer' = <<>>
    /\ \E ord \in Orders(DOMAIN sessions) :
          LET d == DropSessions(sessions, ord, channel)
          IN  /\ channel' = d.channel
              /\ sessions' = d.sessions
    /\ handles' = <<>>
    /\ pc' = "aborted"
    /\ UNCHANGED <<attributes, outputs, wrappers, streams, result, input,
                   time, delivered, overflow_checks>>

(* no batch is left: the closure returns, line 104, handles goes out of scope *)
Return ==
    /\ pc = "active"
    /\ input = 0
    /\ handles' = <<>>
    /\ pc' = "idle"
    /\ UNCHANGED <<attributes, outputs, wrappers, streams, result, input,
                   demux_buffer, time, sessions, channel, consumed,
                   delivered, overflow_checks>>

----------------------------------------------------------------------------
Init ==
    /\ pc = "new"
    /\ attributes \in AttributeLists
    /\ outputs = 0
    /\ wrappers = <<>>
    /\ streams = <<>>
    /\ result = <<>>
    /\ input = 0
    /\ demux_buffer = <<>>
    /\ handles = <<>>
    /\ time = 0
    /\ sessions = <<>>
    /\ channel = <<>>
    /\ consumed = <<>>
    /\ delivered = <<>>
    /\ overflow_checks = FALSE

Next ==
    \/ Source
    \/ Deliver
    \/ Schedule
    \/ ForEachBatch
    \/ DrainEvent
    \/ EndBatch
    \/ Return

Spec == Init /\ [][Next]_vars

(* The engine schedules the operator whenever it is idle, and the closure,
   once entered, runs its sequential code to the end. *)
Fairness ==
    /\ WF_vars(Schedule)
    /\ WF_vars(ForEachBatch)
    /\ WF_vars(DrainEvent)
    /\ WF_vars(EndBatch)
    /\ WF_vars(Return)

FairSpec == Spec /\ Fairness

----------------------------------------------------------------------------
(* The same operator fed with lengths from the whole range of the machine
   word, in a build with or without overflow checks. *)
WideLengths == {1, Modulus - 1}

WideEvents ==
    [kind : {"Batch"}, time : Times, operator : Operators, length : WideLengths]
    \cup [kind : {"Merge"}, time : Times, operator : Operators,
          length1 : WideLengths, length2 : WideLengths,
          complete : {None} \cup {Some(c) : c \in WideLengths}]
    \cup OtherEvents

ForEachBatchWide == ForEachBatchOf(WideEvents)

InitWide ==
    /\ pc = "new"
    /\ attributes \in AttributeLists
    /\ outputs = 0
    /\ wrappers = <<>>
    /\ streams = <<>>
    /\ result = <<>>
    /\ input = 0
    /\ demux_buffer = <<>>
    /\ handles = <<>>
    /\ time = 0
    /\ sessions = <<>>
    /\ channel = <<>>
    /\ consumed = <<>>
    /\ delivered = <<>>
    /\ overflow_checks \in BOOLEAN

NextWide ==
    \/ Source
    \/ Deliver
    \/ Schedule
    \/ ForEachBatchWide
    \/ DrainEvent
    \/ Panic
    \/ EndBatch
    \/ Return

SpecWide == InitWide /\ [][NextWide]_vars

----------------------------------------------------------------------------
(* Observation of the outputs *)

Built == pc \in {"idle", "active", "batch"}

SizeRequested == size \in Range(attributes)

HasDuplicates(attrs) ==
    \E i, j \in DOMAIN attrs : i # j /\ attrs[i] = attrs[j]

(* what output o has been given so far: the flushed records, then the
   records of the session open on it *)
SessionsOn(o) == {a \in DOMAIN sessions : sessions[a].out = o}
Pending(o) ==
    IF SessionsOn(o) = {} THEN <<>>
    ELSE Stamped(sessions[CHOOSE a \in SessionsOn(o) : TRUE])
Out(o) == channel[o] \o Pending(o)

(* all outputs, one after the other *)
RECURSIVE Concat(_, _)
Concat(f, n) == IF n = 0 THEN <<>> ELSE Concat(f, n - 1) \o f[n]
AllOut == Concat([o \in DOMAIN channel |-> Out(o)], Len(channel))

SizeOut == IF size \in DOMAIN wrappers THEN Out(wrappers[size]) ELSE <<>>

(* the records of sequence out made from the i-th consumed event *)
From(out, i) == {k \in DOMAIN out : out[k].src = i}

Recognized(e) == e.kind = "Batch" \/ (e.kind = "Merge" /\ e.complete # None)
NumRecognized == Cardinality({i \in DOMAIN consumed : Recognized(consumed[i].event)})

----------------------------------------------------------------------------
(* C1: with the size attribute requested, every consumed Batch event with
   operator o, length n and time t has exactly one tuple, and it is
   ((Eid(o), Number(n)), t, +1) on the size channel. *)
C1_BatchTuple ==
    SizeRequested =>
        LET all == AllOut
            so == SizeOut
        IN  \A i \in DOMAIN consumed :
                LET e == consumed[i].event
                IN  e.kind = "Batch" =>
                      /\ Cardinality(From(all, i)) = 1
                      /\ \E k \in DOMAIN so :
                            /\ so[k].src = i
                            /\ so[k].tuple =
                                  <<<<Eid(e.operator), Number(e.length)>>, e.time, 1>>

C1_Witness ==
    /\ pc = "idle"
    /\ SizeRequested
    /\ \E i \in DOMAIN consumed :
          /\ consumed[i].event.kind = "Batch"
          /\ consumed[i].event.length > 0
          /\ \E j \in DOMAIN channel[wrappers[size]] :
                channel[wrappers[size]][j].src = i

(* C2: with the size attribute requested, every consumed Merge event with
   complete = Some(final) has exactly one tuple, and it is
   ((Eid(o), Number(final - (l1 + l2))), t, +1) on the size channel; the
   value is negative when final < l1 + l2. *)
C2_MergeTuple ==
    SizeRequested =>
        LET all == AllOut
            so == SizeOut
        IN  \A i \in DOMAIN consumed :
                LET e == consumed[i].event
                IN  (e.kind = "Merge" /\ e.complete # None) =>
                      /\ Cardinality(From(all, i)) = 1
                      /\ \E k \in DOMAIN so :
                            /\ so[k].src = i
                            /\ so[k].tuple =
                                  <<<<Eid(e.operator),
                                      Number(e.complete[1] - (e.length1 + e.length2))>>,
                                    e.time, 1>>
                            /\ (e.complete[1] < e.length1 + e.length2) =>
                                  (so[k].tuple[1][2][2] < 0 /\ so[k].tuple[3] = 1)

C2_Witness ==
    /\ pc = "idle"
    /\ SizeRequested
    /\ \E i \in DOMAIN consumed :
          /\ consumed[i].event.kind = "Merge"
          /\ consumed[i].event.complete # None
          /\ consumed[i].event.complete[1] <
                 consumed[i].event.length1 + consumed[i].event.length2
          /\ \E j \in DOMAIN channel[wrappers[size]] :
                /\ channel[wrappers[size]][j].src = i
                /\ channel[wrappers[size]][j].tuple[1][2][2] < 0

(* C3: a Merge event with complete = None, and an event of any other kind
   than Batch and Merge, has no tuple on any channel and is no error: the
   operator goes on, and the recognized events that follow it get their
   tuple. *)
C3_Dropped ==
    LET all == AllOut
    IN  \A i \in DOMAIN consumed :
            ~Recognized(consumed[i].event) =>
                /\ From(all, i) = {}
                /\ Built
                /\ \A j \in DOMAIN consumed :
                      (j > i /\ Recognized(consumed[j].event) /\ SizeRequested) =>
                          From(all, j) # {}

C3_Witness ==
    /\ SizeRequested
    /\ Len(consumed) >= 2
    /\ consumed[1].event.kind = "Merge"
    /\ consumed[1].event.complete = None
    /\ consumed[2].event.kind = "Batch"
    /\ consumed[1].batch = consumed[2].batch
    /\ Len(SizeOut) = 1

(* C4: if the size attribute is not requested (the empty attribute list
   included, where no output exists), no tuple is ever emitted on any
   channel, and the events are consumed all the same. *)
C4_NotRequested ==
    ~SizeRequested =>
        /\ \A o \in DOMAIN channel : Out(o) = <<>>
        /\ (attributes = <<>> /\ pc # "new") => (outputs = 0 /\ Built)
        /\ consumed # <<>> => Built

C4_Witness ==
    /\ ~SizeRequested
    /\ attributes # <<>>
    /\ pc = "idle"
    /\ Len(consumed) = MaxEvents
    /\ \E i \in DOMAIN consumed : consumed[i].event.kind = "Batch"

(* C5: after construction every requested key has exactly one output of the
   operator, the one handed out for it, and no two keys have the same
   output. *)
C5_OneChannelPerKey ==
    Built =>
        /\ DOMAIN wrappers = Range(attributes)
        /\ \A a \in DOMAIN wrappers : wrappers[a] \in 1 .. outputs
        /\ \A a, b \in DOMAIN wrappers : a # b => wrappers[a] # wrappers[b]
        /\ outputs = Cardinality(Range(attributes))
        /\ Len(result) = Len(attributes)
        /\ \A i \in DOMAIN result :
              /\ result[i][1] = attributes[i]
              /\ result[i][3] = wrappers[attributes[i]]

C5_Witness ==
    /\ Built
    /\ Len(attributes) = 2
    /\ wrappers[attributes[1]] = 1
    /\ wrappers[attributes[2]] = 2

(* C6: a key requested more than once is collapsed: construction completes,
   exactly one output is allocated for that key and no output is left
   without a key. *)
C6_DuplicatesCollapsed ==
    (pc # "new" /\ HasDuplicates(attributes)) =>
        /\ Built
        /\ outputs = Cardinality(Range(attributes))
        /\ \A o \in 1 .. outputs : \E a \in DOMAIN wrappers : wrappers[a] = o

(* C7, as stated: every tuple in the session opened for attribute A at
   batch time T is destined for A and its time field is T. *)
C7_SessionTime ==
    \A a \in DOMAIN sessions :
        \A k \in DOMAIN sessions[a].buf :
            /\ a = size
            /\ sessions[a].buf[k].tuple[2] = sessions[a].time

(* C7, amended: every tuple in the session opened for attribute A at batch
   time T is destined for A and was made from an event of the batch
   delivered at T, and it is flushed under the time T; its time field is the
   logical time of its source event, whether or not that is T. *)
C7_SessionBatch ==
    /\ \A a \in DOMAIN sessions :
          /\ sessions[a].time = time
          /\ sessions[a].out = wrappers[a]
          /\ \A k \in DOMAIN sessions[a].buf :
                LET r == sessions[a].buf[k]
                IN  /\ a = size
                    /\ consumed[r.src].batch = sessions[a].time
                    /\ r.tuple[2] = consumed[r.src].event.time
    /\ \A o \in DOMAIN channel :
          \A k \in DOMAIN channel[o] :
              channel[o][k].stime = consumed[channel[o][k].src].batch

C7_Witness ==
    /\ pc = "batch"
    /\ size \in DOMAIN sessions
    /\ \E k \in DOMAIN sessions[size].buf :
          sessions[size].buf[k].tuple[2] > sessions[size].time
    /\ channel[wrappers[size]] # <<>>

(* C8: the time field of every emitted tuple is the logical time of its
   source event, never the time of the batch that delivered the event when
   the two differ. *)
C8_EventTime ==
    LET all == AllOut
    IN  \A k \in DOMAIN all :
            LET c == consumed[all[k].src]
            IN  /\ all[k].tuple[2] = c.event.time
                /\ c.event.time # c.batch => all[k].tuple[2] # c.batch

C8_Witness ==
    /\ pc = "idle"
    /\ \E o \in DOMAIN channel :
          \E k \in DOMAIN channel[o] :
              /\ consumed[channel[o][k].src].event.time
                    # consumed[channel[o][k].src].batch
              /\ consumed[channel[o][k].src].event.kind = "Merge"

(* C9: every consumed event has at most one tuple: the number of tuples
   emitted over all channels is at most the number of events consumed, and
   with the size attribute requested it is the number of Batch events and
   completed Merge events. *)
C9_AtMostOne ==
    LET all == AllOut
    IN  /\ \A j, k \in DOMAIN all : all[j].src = all[k].src => j = k
        /\ \A k \in DOMAIN all : all[k].src \in DOMAIN consumed
        /\ Len(all) <= Len(consumed)
        /\ SizeRequested => Len(all) = NumRecognized

C9_Witness ==
    /\ SizeRequested
    /\ Len(consumed) = MaxEvents
    /\ NumRecognized = 1
    /\ Len(AllOut) = 1

(* C10: on the size channel the tuples are in the arrival order of their
   source events, within a batch and across batches. *)
C10_ArrivalOrder ==
    LET so == SizeOut
    IN  /\ \A j, k \in DOMAIN so : j < k => so[j].src < so[k].src
        /\ SizeRequested =>
              \A i \in DOMAIN consumed :
                  Recognized(consumed[i].event) => From(so, i) # {}

C10_Witness ==
    /\ Len(SizeOut) >= 2
    /\ pc = "batch"
    /\ channel[wrappers[size]] # <<>>
    /\ sessions[size].buf # <<>>

----------------------------------------------------------------------------
(* What the channel of key a holds after the first n events of the history
   log: a function of the attribute key and of the input alone *)
ReplayTuple(e) ==
    IF e.kind = "Batch" THEN BatchTuple(e, e.time) ELSE MergeTuple(e, e.time)

RECURSIVE Replay(_, _, _)
Replay(a, log, n) ==
    IF n = 0 THEN <<>>
    ELSE IF a = size /\ Recognized(log[n].event)
         THEN Append(Replay(a, log, n - 1),
                     [stime |-> log[n].batch,
                      tuple |-> ReplayTuple(log[n].event),
                      src |-> n])
         ELSE Replay(a, log, n - 1)

(* C11: replay is deterministic: the output sequence of every channel is a
   function of the attribute list and of the sequence of batches and events
   consumed, the same for every instance fed with them, whatever the order
   in which the hash maps of the instance are iterated. *)
C11_ReplayDeterministic ==
    Built =>
        /\ \A a \in DOMAIN wrappers :
              Out(wrappers[a]) = Replay(a, consumed, Len(consumed))
        /\ \A i \in DOMAIN result : result[i][1] = attributes[i]

C11_Witness ==
    /\ pc = "idle"
    /\ DOMAIN wrappers = {size, OtherAid}
    /\ wrappers[size] = 2
    /\ Len(channel[2]) = 2
    /\ channel[2][1].stime # channel[2][2].stime

(* C13: while a batch is processed exactly one session is open on every
   output, at the time of the batch, from before its first event is
   classified, also on the outputs that get no tuple; outside the
   processing of a batch, and so in an invocation that finds no batch, no
   session is open. *)
C13_SessionPerChannel ==
    /\ pc = "batch" =>
          /\ DOMAIN sessions = DOMAIN wrappers
          /\ \A o \in 1 .. outputs : Cardinality(SessionsOn(o)) = 1
          /\ \A a \in DOMAIN sessions :
                /\ sessions[a].time = time
                /\ sessions[a].out = wrappers[a]
                /\ \A k \in DOMAIN sessions[a].buf :
                      sessions[a].buf[k].src <= Len(consumed)
    /\ pc # "batch" => sessions = <<>>

C13_Witness ==
    /\ pc = "batch"
    /\ demux_buffer = <<>>
    /\ DOMAIN sessions = {size, OtherAid}
    /\ sessions[OtherAid].buf = <<>>
    /\ sessions[size].buf # <<>>

(* C14: no cross-talk: the channel of every requested attribute other than
   size has no tuple; every emitted tuple is on the size channel. *)
C14_NoCrossTalk ==
    /\ \A a \in (DOMAIN wrappers) \ {size} : Out(wrappers[a]) = <<>>
    /\ Len(AllOut) = Len(SizeOut)

C14_Witness ==
    /\ pc = "idle"
    /\ DOMAIN wrappers = {size, OtherAid}
    /\ Len(channel[wrappers[size]]) = MaxEvents
    /\ channel[wrappers[OtherAid]] = <<>>

(* C15: the reused buffer is empty whenever no batch is being processed; the
   events read so far are those classified so far, once each and in order,
   followed by those still in the buffer, which belong to the batch being
   processed; and no tuple is in a session or a flush of another batch than
   the one that delivered its event. *)
C15_NoLeakAcrossBatches ==
    /\ pc # "batch" => demux_buffer = <<>>
    /\ delivered = consumed \o Logged(demux_buffer, time)
    /\ LET all == AllOut
       IN  \A k \in DOMAIN all :
               /\ all[k].src \in DOMAIN delivered
               /\ all[k].stime = delivered[all[k].src].batch

C15_Witness ==
    /\ pc = "batch"
    /\ Len(consumed) = 1
    /\ Len(demux_buffer) = 1
    /\ consumed[1].batch # time
    /\ SizeRequested
    /\ Len(SizeOut) = 1

(* C12: a session does not outlive its batch: whenever no batch is being
   processed, after the normal end of a batch as after a panic partway
   through the drain loop, no session is open, so none is when the next
   batch starts; and every tuple written before is on its channel. *)
C12_SessionsClosed ==
    pc # "batch" =>
        /\ sessions = <<>>
        /\ SizeRequested =>
              \A i \in DOMAIN consumed :
                  (Recognized(consumed[i].event)
                      /\ ~(pc = "aborted" /\ i = Len(consumed))) =>
                      \E k \in DOMAIN channel[wrappers[size]] :
                          channel[wrappers[size]][k].src = i

C12_Witness ==
    /\ pc = "aborted"
    /\ Len(consumed) = 2
    /\ SizeRequested
    /\ Len(channel[wrappers[size]]) = 1
    /\ channel[wrappers[size]][1].src = 1
    /\ channel[wrappers[size]][1].stime = consumed[2].batch

(* C16: every invocation of the operator comes to its end, every batch that
   waits on the input is read, and with the size attribute requested every
   Batch event and completed Merge event read gets its tuple onto the size
   channel. *)
C16_Drains ==
    /\ (pc \in {"active", "batch"}) ~> (pc = "idle")
    /\ (input > 0) ~> (input = 0)
    /\ (demux_buffer # <<>>) ~> (demux_buffer = <<>>)
    /\ \A i \in 1 .. MaxEvents :
          (SizeRequested /\ i \in DOMAIN delivered
              /\ Recognized(delivered[i].event))
          ~> (/\ size \in DOMAIN wrappers
              /\ \E k \in DOMAIN channel[wrappers[size]] :
                    channel[wrappers[size]][k].src = i)

C16_Witness ==
    /\ pc = "idle"
    /\ input = 0
    /\ SizeRequested
    /\ Len(delivered) = MaxEvents
    /\ Len(channel[wrappers[size]]) = MaxEvents

(* C17: for a completed Merge event the emitted value is the exact signed
   integer final - (l1 + l2) for all lengths of the machine word, with the
   sign that final and l1 + l2 give it; nothing wraps and nothing aborts. *)
C17_ExactDelta ==
    /\ pc # "aborted"
    /\ LET all == AllOut
       IN  \A k \in DOMAIN all :
               LET e == consumed[all[k].src].event
                   v == all[k].tuple[1][2][2]
                   exact == e.complete[1] - (e.length1 + e.length2)
               IN  e.kind = "Merge" =>
                     /\ v = exact
                     /\ (v < 0) <=> (e.complete[1] < e.length1 + e.length2)
                     /\ (v = 0) <=> (e.complete[1] = e.length1 + e.length2)

====
